---- MODULE Spec2Model ----
(***************************************************************************)
(* Model of pynsot/commands/callbacks.py: the click callbacks that turn    *)
(* command-line input into request payloads.                               *)
(*                                                                         *)
(* Python values are modelled as tagged records so that values of          *)
(* different Python types are never compared field by field:               *)
(*   None          [t |-> "none"]                                          *)
(*   a str         [t |-> "str",  s |-> <<chars>>]                         *)
(*   a list/tuple  [t |-> "list", l |-> <<values>>]                        *)
(*   a dict        [t |-> "dict", d |-> function]                          *)
(*   a bool        [t |-> "bool", b |-> TRUE/FALSE]                        *)
(*   an int        [t |-> "int",  n |-> number]                            *)
(* A Python string is a sequence of one-character strings, so that split,  *)
(* partition and title are computed character by character.                *)
(***************************************************************************)
EXTENDS Integers, Sequences, FiniteSets, TLC

VARIABLES
    default_site,    \* ctx.obj.api.default_site
    attributes,      \* ctx.find_root()._attributes, the parse log; an unset
                     \* attribute is the empty log, as lines 79-80 make it
    objs,            \* the dicts handed to process_constraints, by identity
    call             \* the last callback run: its arguments and its outcome

vars == <<default_site, attributes, objs, call>>

\* ------------------------------------------------------------------------
\* Bounds
\* ------------------------------------------------------------------------
MaxLog == 4      \* longest parse log explored
MaxDepth == 2    \* deepest nesting of 'constraints' dicts explored

\* ------------------------------------------------------------------------
\* Python values
\* ------------------------------------------------------------------------
None == [t |-> "none"]
Str(s) == [t |-> "str", s |-> s]
List(l) == [t |-> "list", l |-> l]
Dict(d) == [t |-> "dict", d |-> d]
Bool(b) == [t |-> "bool", b |-> b]
IntVal(n) == [t |-> "int", n |-> n]

\* the message of an exception: its text, and the token or line it cites
NoMsg == [text |-> "", attr |-> <<>>, line |-> 0]

Range(f) == {f[x] : x \in DOMAIN f}

\* d[k] = v on a dict
Put(d, k, v) == [x \in (DOMAIN d) \cup {k} |-> IF x = k THEN v ELSE d[x]]

\* the dict without key k
Del(d, k) == [x \in (DOMAIN d) \ {k} |-> d[x]]

EmptyDict == [x \in {} |-> x]

\* every order in which a set can be iterated
Perms(S) == {f \in [1..Cardinality(S) -> S] : Range(f) = S}

\* ------------------------------------------------------------------------
\* str methods
\* ------------------------------------------------------------------------
LowerCase ==
    <<"a", "b", "c", "d", "e", "f", "g", "h", "i", "j", "k", "l", "m",
      "n", "o", "p", "q", "r", "s", "t", "u", "v", "w", "x", "y", "z">>

UpperCase ==
    <<"A", "B", "C", "D", "E", "F", "G", "H", "I", "J", "K", "L", "M",
      "N", "O", "P", "Q", "R", "S", "T", "U", "V", "W", "X", "Y", "Z">>

UpperOf ==
    [c \in Range(LowerCase) |->
        UpperCase[CHOOSE i \in DOMAIN LowerCase : LowerCase[i] = c]]

LowerOf ==
    [c \in Range(UpperCase) |->
        LowerCase[CHOOSE i \in DOMAIN UpperCase : UpperCase[i] = c]]

islower(c) == c \in DOMAIN UpperOf
isupper(c) == c \in DOMAIN LowerOf

RECURSIVE title_from(_, _, _)
title_from(s, i, previous_is_cased) ==
    IF i > Len(s) THEN <<>>
    ELSE IF islower(s[i])
         THEN <<IF previous_is_cased THEN s[i] ELSE UpperOf[s[i]]>>
                  \o title_from(s, i + 1, TRUE)
    ELSE IF isupper(s[i])
         THEN <<IF previous_is_cased THEN LowerOf[s[i]] ELSE s[i]>>
                  \o title_from(s, i + 1, TRUE)
    ELSE <<s[i]>> \o title_from(s, i + 1, FALSE)

\* str.title(): first cased character of every word upper, the rest lower
title(s) == title_from(s, 1, FALSE)

RECURSIVE split_from(_, _, _, _)
split_from(s, sep, i, cur) ==
    IF i > Len(s) THEN <<cur>>
    ELSE IF s[i] = sep THEN <<cur>> \o split_from(s, sep, i + 1, <<>>)
    ELSE split_from(s, sep, i + 1, Append(cur, s[i]))

\* str.split(sep): ''.split(',') is ['']
split(s, sep) == split_from(s, sep, 1, <<>>)

\* str.rpartition in place of partition: split around the last sep
partition_last(s, sep) ==
    IF \E i \in 1..Len(s) : s[i] = sep
    THEN LET i == CHOOSE j \in 1..Len(s) :
                     s[j] = sep /\ \A k \in (j + 1)..Len(s) : s[k] # sep
         IN  <<SubSeq(s, 1, i - 1), <<sep>>, SubSeq(s, i + 1, Len(s))>>
    ELSE <<s, <<>>, <<>>>>

\* str.partition(sep): (head, sep, tail) around the first sep, or (s, '', '')
partition(s, sep) ==
    IF \E i \in 1..Len(s) : s[i] = sep
    THEN LET i == CHOOSE j \in 1..Len(s) :
                     s[j] = sep /\ \A k \in 1..(j - 1) : s[k] # sep
         IN  <<SubSeq(s, 1, i - 1), <<sep>>, SubSeq(s, i + 1, Len(s))>>
    ELSE <<s, <<>>, <<>>>>

RECURSIVE join(_, _)
join(parts, sep) ==
    IF Len(parts) = 0 THEN <<>>
    ELSE IF Len(parts) = 1 THEN parts[1]
    ELSE parts[1] \o <<sep>> \o join(Tail(parts), sep)

\* ------------------------------------------------------------------------
\* Strings used as inputs
\* ------------------------------------------------------------------------
s_a1 == <<"a", "=", "1">>
s_a2 == <<"a", "=", "2">>
s_b2 == <<"b", "=", "2">>
s_novalue == <<"n", "o", "v", "a", "l", "u", "e">>
s_nokey == <<"=", "1">>
s_a12 == <<"a", "=", "1", "=", "2">>
s_empty == <<>>
s_name == <<"n", "a", "m", "e">>
s_cidr == <<"c", "i", "d", "r">>
s_up == <<"u", "p">>
s_attributes == <<"a", "t", "t", "r", "i", "b", "u", "t", "e", "s">>
s_foo == <<"f", "o", "o">>
s_bar == <<"b", "a", "r">>
s_x == <<"x">>
s_True == <<"T", "r", "u", "e">>
s_False == <<"F", "a", "l", "s", "e">>
s_TRUE == <<"T", "R", "U", "E">>
s_false == <<"f", "a", "l", "s", "e">>

\* ------------------------------------------------------------------------
\* transform_attributes
\* ------------------------------------------------------------------------
\* set(chain.from_iterable(v.split(',') for v in value))
items_of(value) == UNION {Range(split(value[i], ",")) : i \in DOMAIN value}

\* the for loop over items, taken in the order `order`, from entry i on
RECURSIVE attr_loop(_, _, _, _)
attr_loop(order, i, log, attrs) ==
    IF i > Len(order)
    THEN [status |-> "ok", ret |-> Dict(attrs), log |-> log, msg |-> NoMsg]
    ELSE LET p == partition(order[i], "=")
             key == p[1]
             val == p[3]
         IN  IF key = <<>>
             THEN [status |-> "UsageError", ret |-> None, log |-> log,
                   msg |-> [text |-> "Invalid attribute", attr |-> order[i],
                           line |-> 0]]
             ELSE attr_loop(order, i + 1, Append(log, <<key, val>>),
                            Put(attrs, key, val))

\* transform_attributes with lines 79-80 unconditional: the parse log is
\* started afresh on every call
transform_attributes_outcomes_fresh_log(log, value) ==
    IF value.t = "none"
    THEN {[status |-> "TypeError", ret |-> None, log |-> log,
           msg |-> [text |-> "not iterable", attr |-> <<>>, line |-> 0]]}
    ELSE LET lst == IF value.t = "str" THEN <<value.s>> ELSE value.l
         IN  {attr_loop(order, 1, <<>>, EmptyDict) : order \in Perms(items_of(lst))}

\* every outcome transform_attributes can have on a parse log and a value;
\* val is always the str that partition returned, so the int cast is dead
transform_attributes_outcomes(log, value) ==
    IF value.t = "none"
    THEN {[status |-> "TypeError", ret |-> None, log |-> log,
           msg |-> [text |-> "not iterable", attr |-> <<>>, line |-> 0]]}
    ELSE LET lst == IF value.t = "str" THEN <<value.s>> ELSE value.l
         IN  {attr_loop(order, 1, log, EmptyDict) : order \in Perms(items_of(lst))}

AttrValues ==
    {None,
     Str(s_a1), Str(s_novalue), Str(s_nokey), Str(s_empty),
     Str(join(<<s_a1, s_b2>>, ",")),
     Str(join(<<s_a1, s_a2>>, ",")),
     Str(join(<<s_a1, s_nokey>>, ",")),
     Str(join(<<s_a1, s_a1>>, ",")),
     List(<<>>),
     List(<<join(<<s_a1, s_b2>>, ",")>>),
     List(<<s_a1, s_a2>>),
     List(<<s_b2, join(<<s_a1, s_b2>>, ",")>>),
     List(<<s_a12, s_novalue>>)}

transform_attributes ==
    \E value \in AttrValues :
      \E o \in transform_attributes_outcomes(attributes, value) :
        /\ Len(o.log) <= MaxLog
        /\ attributes' = o.log
        /\ call' = [op |-> "transform_attributes", value |-> value,
                    status |-> o.status, ret |-> o.ret, msg |-> o.msg]
        /\ UNCHANGED <<default_site, objs>>

\* ------------------------------------------------------------------------
\* process_bulk_add
\* ------------------------------------------------------------------------
NO_ATTRIBUTES == {"attributes"}

\* the key csv.DictReader files the surplus fields of a long row under
\* (restkey=None); no header field can equal it
NoneKey == <<"None">>

\* csv.reader on one line, delimiter ':' (a blank line is the row [])
csv_row(line) == IF line = <<>> THEN <<>> ELSE split(line, ":")

\* DictReader.fieldnames: the first row of the file
fieldnames(lines) == csv_row(lines[1])

\* dict(zip(names, row)), from pair i on
RECURSIVE zip_dict(_, _, _, _)
zip_dict(names, row, i, d) ==
    IF i > Len(names) \/ i > Len(row) THEN d
    ELSE zip_dict(names, row, i + 1, Put(d, names[i], Str(row[i])))

\* for key in fieldnames[lr:]: d[key] = restval
RECURSIVE rest_val(_, _, _)
rest_val(names, i, d) ==
    IF i > Len(names) THEN d
    ELSE rest_val(names, i + 1, Put(d, names[i], None))

\* the dict DictReader builds from one row
row_dict(names, row) ==
    LET d == zip_dict(names, row, 1, EmptyDict)
        lf == Len(names)
        lr == Len(row)
    IN  IF lf < lr THEN Put(d, NoneKey, List(SubSeq(row, lf + 1, lr)))
        ELSE IF lf > lr THEN rest_val(names, lr + 1, d)
        ELSE d

\* DictReader.next() with the stream cursor before line i: blank rows are
\* skipped, and reading fieldnames leaves line_num at the row returned
reader_next(lines, i) ==
    LET full == {j \in i..Len(lines) : lines[j] # <<>>}
    IN  IF full = {}
        THEN [stop |-> TRUE, line_num |-> 0, row |-> EmptyDict, cursor |-> Len(lines) + 1]
        ELSE LET j == CHOOSE m \in full : \A n \in full : m <= n
             IN  [stop |-> FALSE, line_num |-> j,
                  row |-> row_dict(fieldnames(lines), csv_row(lines[j])),
                  cursor |-> j + 1]

\* ast.literal_eval of a string that titles to True or False: only the
\* names True and False are literals, any other name is malformed
literal_eval(s) ==
    IF s = s_True THEN [status |-> "ok", value |-> Bool(TRUE)]
    ELSE IF s = s_False THEN [status |-> "ok", value |-> Bool(FALSE)]
    ELSE [status |-> "ValueError", value |-> None]

\* lines 143-147: the row after its attributes were transformed
attr_step(parent_resource_name, r, log) ==
    IF parent_resource_name \in NO_ATTRIBUTES
    THEN {[status |-> "ok", r |-> r, log |-> log, msg |-> NoMsg]}
    ELSE IF s_attributes \notin DOMAIN r
    THEN {[status |-> "KeyError", r |-> r, log |-> log,
           msg |-> [text |-> "attributes", attr |-> <<>>, line |-> 0]]}
    ELSE {[status |-> o.status,
           r |-> IF o.status = "ok" THEN Put(r, s_attributes, o.ret) ELSE r,
           log |-> o.log, msg |-> o.msg] :
            o \in transform_attributes_outcomes(log, r[s_attributes])}

\* lines 151-161: the loop over r.iteritems(), taken in the order `order`
RECURSIVE bool_loop(_, _, _, _)
bool_loop(order, i, r, lineno) ==
    IF i > Len(order) THEN [status |-> "ok", r |-> r, msg |-> NoMsg]
    ELSE LET k == order[i]
             v == r[k]
         IN  IF v.t = "dict" THEN bool_loop(order, i + 1, r, lineno)
             ELSE IF v.t # "str"
             THEN [status |-> "BadParameter", r |-> r,
                   msg |-> [text |-> "Error parsing file", attr |-> <<>>,
                            line |-> lineno]]
             ELSE IF title(v.s) \in {s_True, s_False}
             THEN LET e == literal_eval(v.s)
                  IN  IF e.status # "ok"
                      THEN [status |-> e.status, r |-> r,
                            msg |-> [text |-> "malformed string",
                                     attr |-> <<>>, line |-> 0]]
                      ELSE bool_loop(order, i + 1, Put(r, k, e.value), lineno)
             ELSE bool_loop(order, i + 1, r, lineno)

\* lines 134-162: every outcome of the loop over the reader, with the
\* stream cursor before line i
RECURSIVE bulk_rows(_, _, _, _, _)
bulk_rows(parent_resource_name, lines, i, objects, log) ==
    LET nxt == reader_next(lines, i)
        r == nxt.row
        lineno == nxt.line_num
    IN  IF nxt.stop
        THEN {[status |-> "ok", ret |-> List(objects), log |-> log,
               msg |-> NoMsg, cursor |-> nxt.cursor]}
        ELSE IF Cardinality(DOMAIN r) # Len(fieldnames(lines))
        THEN {[status |-> "BadParameter", ret |-> None, log |-> log,
               msg |-> [text |-> "File has wrong number of fields",
                        attr |-> <<>>, line |-> lineno],
               cursor |-> nxt.cursor]}
        ELSE UNION {
               IF a.status # "ok"
               THEN {[status |-> a.status, ret |-> None, log |-> a.log,
                      msg |-> a.msg, cursor |-> nxt.cursor]}
               ELSE UNION {
                      LET b == bool_loop(order, 1, a.r, lineno)
                      IN  IF b.status # "ok"
                          THEN {[status |-> b.status, ret |-> None,
                                 log |-> a.log, msg |-> b.msg,
                                 cursor |-> nxt.cursor]}
                          ELSE bulk_rows(parent_resource_name, lines,
                                         nxt.cursor,
                                         Append(objects, Dict(b.r)), a.log) :
                      order \in Perms(DOMAIN a.r)} :
               a \in attr_step(parent_resource_name, r, log)}

\* every outcome process_bulk_add can have; value is None or the lines of
\* the open file
process_bulk_add_outcomes(parent_resource_name, value, log) ==
    IF value.t = "none"
    THEN {[status |-> "ok", ret |-> None, log |-> log, msg |-> NoMsg,
           cursor |-> 0]}
    ELSE IF Len(value.l) = 0
    THEN {[status |-> "ok", ret |-> List(<<>>), log |-> log, msg |-> NoMsg,
           cursor |-> 1]}
    ELSE bulk_rows(parent_resource_name, value.l, 2, <<>>, log)

h_name_attrs == join(<<s_name, s_attributes>>, ":")
h_name_up_attrs == join(<<s_name, s_up, s_attributes>>, ":")
h_name_cidr_attrs == join(<<s_name, s_cidr, s_attributes>>, ":")

BulkFiles ==
    {<<>>,
     <<h_name_attrs>>,
     <<h_name_attrs, join(<<s_foo, join(<<s_a1, s_b2>>, ",")>>, ":")>>,
     <<h_name_attrs, join(<<s_foo, s_a1>>, ":"), join(<<s_bar, s_b2>>, ":")>>,
     <<h_name_attrs, join(<<s_foo, s_a1>>, ":"), join(<<s_bar, s_nokey>>, ":")>>,
     <<h_name_attrs, join(<<s_foo, s_a1>>, ":"), join(<<s_bar, s_b2, s_x>>, ":")>>,
     <<h_name_attrs, join(<<s_foo, s_a1, s_x>>, ":")>>,
     <<h_name_attrs, <<>>, join(<<s_foo, s_a1, s_x>>, ":")>>,
     <<h_name_attrs, <<>>, join(<<s_foo, s_a1>>, ":"), <<>>>>,
     <<h_name_cidr_attrs, join(<<s_foo, s_cidr>>, ":")>>,
     <<join(<<s_attributes, s_name, s_cidr>>, ":"), join(<<s_a1, s_foo>>, ":")>>,
     <<join(<<s_name, s_cidr>>, ":"), join(<<s_foo, s_x>>, ":")>>,
     <<h_name_up_attrs, join(<<s_foo, s_True, s_a1>>, ":")>>,
     <<h_name_up_attrs, join(<<s_foo, s_False, s_a1>>, ":")>>,
     <<h_name_up_attrs, join(<<s_foo, s_TRUE, s_a1>>, ":")>>,
     <<h_name_up_attrs, join(<<s_foo, s_false, s_b2>>, ":")>>}

BulkValues == {None} \cup {List(f) : f \in BulkFiles}

ResourceNames == {"networks", "attributes"}

process_bulk_add ==
    \E parent_resource_name \in ResourceNames, value \in BulkValues :
      \E o \in process_bulk_add_outcomes(parent_resource_name, value, attributes) :
        /\ Len(o.log) <= MaxLog
        /\ attributes' = o.log
        /\ call' = [op |-> "process_bulk_add",
                    parent_resource_name |-> parent_resource_name,
                    value |-> value, status |-> o.status, ret |-> o.ret,
                    msg |-> o.msg, cursor |-> o.cursor]
        /\ UNCHANGED <<default_site, objs>>

\* ------------------------------------------------------------------------
\* process_site_id
\* ------------------------------------------------------------------------
SiteIds == {IntVal(1), IntVal(2)}

\* process_site_id without line 35: the site id given is not stored
process_site_id_not_stored ==
    \E value \in {None} \cup SiteIds :
      /\ IF value = None /\ default_site = None
         THEN call' = [op |-> "process_site_id", value |-> value,
                       status |-> "UsageError", ret |-> None]
         ELSE call' = [op |-> "process_site_id", value |-> value,
                       status |-> "ok",
                       ret |-> IF value = None THEN default_site ELSE value]
      /\ UNCHANGED <<default_site, attributes, objs>>

process_site_id ==
    \E value \in {None} \cup SiteIds :
      /\ IF value = None
         THEN IF default_site = None
              THEN /\ call' = [op |-> "process_site_id", value |-> value,
                               status |-> "UsageError", ret |-> None]
                   /\ UNCHANGED default_site
              ELSE /\ call' = [op |-> "process_site_id", value |-> value,
                               status |-> "ok", ret |-> default_site]
                   /\ UNCHANGED default_site
         ELSE /\ default_site' = value
              /\ call' = [op |-> "process_site_id", value |-> value,
                          status |-> "ok", ret |-> value]
      /\ UNCHANGED <<attributes, objs>>

\* ------------------------------------------------------------------------
\* process_constraints
\* ------------------------------------------------------------------------
ObjIds == {"o1", "o2"}

\* a reference to one dict of the store
Ref(id) == [t |-> "ref", id |-> id]

\* the dicts a command builds from its arguments
PlainRecords ==
    {EmptyDict,
     [f \in {"name"} |-> IntVal(1)],
     [f \in {"site_id"} |-> IntVal(2)],
     [f \in {"name", "site_id"} |-> IF f = "name" THEN IntVal(1) ELSE IntVal(2)]}

ConstraintFieldSets == SUBSET {"name", "site_id", "constraints"}

DataInputs ==
    {Ref(id) : id \in ObjIds}
      \cup {List(<<>>), List(<<"o1">>), List(<<"o1", "o2">>),
            List(<<"o2", "o1">>), List(<<"o1", "o1">>)}

\* how deep dicts nest inside the dict d
RECURSIVE depth(_)
depth(d) ==
    LET inner == {f \in DOMAIN d : d[f].t = "dict"}
    IN  IF inner = {} THEN 0
        ELSE LET ds == {depth(d[f].d) : f \in inner}
             IN  1 + CHOOSE m \in ds : \A n \in ds : n <= m

\* lines 54-60 with obj[c_field] read instead of popped
move_constraints_copying(obj, constraint_fields) ==
    LET popped == constraint_fields \cap DOMAIN obj
        constraints == [f \in popped |-> obj[f]]
    IN  Put(obj, "constraints", Dict(constraints))

\* lines 54-60: one pass of the loop body over the dict obj
move_constraints(obj, constraint_fields) ==
    LET popped == constraint_fields \cap DOMAIN obj
        constraints == [f \in popped |-> obj[f]]
        rest == [f \in (DOMAIN obj) \ popped |-> obj[f]]
    IN  Put(rest, "constraints", Dict(constraints))

\* lines 53-60: the loop over objects, from entry i on, on the store
RECURSIVE constraints_loop(_, _, _, _)
constraints_loop(store, objects, i, constraint_fields) ==
    IF i > Len(objects) THEN store
    ELSE constraints_loop(
             [store EXCEPT ![objects[i]] =
                 move_constraints(store[objects[i]], constraint_fields)],
             objects, i + 1, constraint_fields)

process_constraints ==
    \E data \in DataInputs, constraint_fields \in ConstraintFieldSets :
      LET objects == IF data.t = "list" THEN data.l ELSE <<data.id>>
          after == constraints_loop(objs, objects, 1, constraint_fields)
      IN  /\ \A id \in ObjIds : depth(after[id]) <= MaxDepth
          /\ objs' = after
          /\ call' = [op |-> "process_constraints", data |-> data,
                      constraint_fields |-> constraint_fields,
                      status |-> "ok", ret |-> data]
          /\ UNCHANGED <<default_site, attributes>>

\* ------------------------------------------------------------------------
\* get_resource_by_natural_key
\* ------------------------------------------------------------------------
\* what ctx.obj.get_single_object can answer: no object, an object without
\* an id, an object with an id, or an exception of its own
LookupAnswers ==
    {[status |-> "ok", obj |-> None],
     [status |-> "ok", obj |-> Dict([f \in {"id"} |-> None])],
     [status |-> "ok", obj |-> Dict([f \in {"id"} |-> IntVal(5)])],
     [status |-> "ok", obj |-> Dict([f \in {"id"} |-> IntVal(7)])],
     [status |-> "LookupFailure", obj |-> None]}

\* lines 186-203 without the check of line 197
get_resource_by_natural_key_outcome_unchecked(answer, resource_name) ==
    IF answer.status # "ok"
    THEN [status |-> answer.status, ret |-> None, msg |-> ""]
    ELSE IF answer.obj = None
    THEN [status |-> "UsageError", ret |-> None, msg |-> resource_name]
    ELSE [status |-> "ok", ret |-> answer.obj.d["id"], msg |-> ""]

\* lines 186-203, given what the lookup answered
get_resource_by_natural_key_outcome(answer, resource_name) ==
    IF answer.status # "ok"
    THEN [status |-> answer.status, ret |-> None, msg |-> ""]
    ELSE LET obj == answer.obj
             resource_id == IF obj # None THEN obj.d["id"] ELSE None
         IN  IF resource_id = None
             THEN [status |-> "UsageError", ret |-> None, msg |-> resource_name]
             ELSE [status |-> "ok", ret |-> resource_id, msg |-> ""]

ParentResourceNames == {"networks", "devices"}

get_resource_by_natural_key ==
    \E answer \in LookupAnswers, resource_name \in ParentResourceNames :
      LET o == get_resource_by_natural_key_outcome(answer, resource_name)
      IN  /\ call' = [op |-> "get_resource_by_natural_key",
                      resource_name |-> resource_name, answer |-> answer,
                      status |-> o.status, ret |-> o.ret, msg |-> o.msg]
          /\ UNCHANGED <<default_site, attributes, objs>>

\* ------------------------------------------------------------------------
\* list_subcommand
\* ------------------------------------------------------------------------
\* dict.update the wrong way round: a wins over b
update_keeping(a, b) ==
    [k \in (DOMAIN a) \cup (DOMAIN b) |-> IF k \in DOMAIN a THEN a[k] ELSE b[k]]

\* dict.update: b laid over a
update(a, b) ==
    [k \in (DOMAIN a) \cup (DOMAIN b) |-> IF k \in DOMAIN b THEN b[k] ELSE a[k]]

cidr8 == Str("10.0.0.0/8")
cidr16 == Str("10.1.0.0/16")

\* ctx.parent.params
ParentParams ==
    {[k \in {"id", "cidr"} |-> IF k = "id" THEN None ELSE cidr8],
     [k \in {"id", "cidr"} |-> IF k = "id" THEN IntVal(3) ELSE cidr8],
     [k \in {"id", "cidr"} |-> IF k = "id" THEN IntVal(3) ELSE None],
     [k \in {"cidr"} |-> cidr8]}

\* ctx.params
OwnParams ==
    {EmptyDict,
     [k \in {"cidr"} |-> cidr16],
     [k \in {"id"} |-> IntVal(4)],
     [k \in {"id", "limit"} |-> IF k = "id" THEN None ELSE IntVal(1)]}

\* what app.list can do: return, or raise an error of its own
ListAnswers == {"ok", "ListFailure"}

MyNames == {None, Str("subnets")}
InfoNames == {Str("supernets")}
DisplayFields == {"cidr_fields"}

\* app.rebase(data), line 234: it points the API client at the site and is
\* taken to leave the parameters as they are
rebase(data) == data

\* line 250 without its condition: the parent is always looked up
needs_lookup_always(parent_resource_id) == TRUE

\* line 250: the parent id has to be looked up
needs_lookup(parent_resource_id) == parent_resource_id = None

\* lines 226-258 on the context ctx (ctx.parent.params, ctx.params,
\* ctx.obj.parent_resource_name, ctx.info_name); calls is the sequence of
\* calls made on the app
list_subcommand_outcome(ctx, display_fields, my_name, answer, listing) ==
    LET merged == update(ctx.parent_params, ctx.params)
        parent_resource_name == ctx.parent_resource_name
        info_name == ctx.info_name
    IN  IF "id" \notin DOMAIN merged
        THEN [status |-> "KeyError", calls |-> <<>>, parent_params |-> merged,
              msg |-> "id"]
        ELSE
        LET parent_resource_id == merged["id"]
            popped == Del(merged, "id")
            data == rebase(popped)
            rebased == [fn |-> "rebase", data |-> popped, resource |-> <<>>,
                        display_fields |-> ""]
            name == IF my_name # None THEN my_name ELSE info_name
            parent_resource == <<Str(parent_resource_name)>>
            lookup == [fn |-> "get_single_object", data |-> data,
                       resource |-> parent_resource, display_fields |-> ""]
            found == IF needs_lookup(parent_resource_id)
                     THEN get_resource_by_natural_key_outcome(
                              answer, parent_resource_name)
                     ELSE [status |-> "ok", ret |-> parent_resource_id,
                           msg |-> ""]
            before == IF needs_lookup(parent_resource_id)
                      THEN <<rebased, lookup>> ELSE <<rebased>>
        IN  IF found.status # "ok"
            THEN [status |-> found.status, calls |-> before,
                  parent_params |-> data, msg |-> found.msg]
            ELSE LET my_resource == parent_resource \o <<found.ret, name>>
                     list == [fn |-> "list", data |-> data,
                              resource |-> my_resource,
                              display_fields |-> display_fields]
                 IN  [status |-> listing, calls |-> Append(before, list),
                      parent_params |-> data, msg |-> ""]

list_subcommand ==
    \E parent_params \in ParentParams, params \in OwnParams,
       parent_resource_name \in ParentResourceNames, my_name \in MyNames,
       info_name \in InfoNames, display_fields \in DisplayFields,
       answer \in LookupAnswers, listing \in ListAnswers :
      LET ctx == [parent_params |-> parent_params, params |-> params,
                  parent_resource_name |-> parent_resource_name,
                  info_name |-> info_name]
          o == list_subcommand_outcome(ctx, display_fields, my_name, answer,
                                       listing)
      IN  /\ call' = [op |-> "list_subcommand",
                      parent_params |-> parent_params, params |-> params,
                      parent_resource_name |-> parent_resource_name,
                      my_name |-> my_name, info_name |-> info_name,
                      display_fields |-> display_fields,
                      answer |-> answer, listing |-> listing,
                      status |-> o.status, calls |-> o.calls,
                      parent_params_after |-> o.parent_params,
                      msg |-> o.msg]
          /\ UNCHANGED <<default_site, attributes, objs>>

\* a fresh invocation: no default site configured, no parse log yet, no
\* callback run
Init ==
    /\ default_site = None
    /\ attributes = <<>>
    /\ objs = [id \in ObjIds |-> EmptyDict]
    /\ call = [op |-> "none"]

\* the same, with the dicts a command built from its arguments
InitConstraints ==
    /\ default_site = None
    /\ attributes = <<>>
    /\ objs \in [ObjIds -> PlainRecords]
    /\ call = [op |-> "none"]

\* the attribute parser on its own
NextAttrs == transform_attributes

SpecAttrs == Init /\ [][NextAttrs]_vars

\* the bulk loader, which runs the attribute parser on every row
NextLoad == process_bulk_add

SpecLoad == Init /\ [][NextLoad]_vars
\* the constraint extractor on the dicts of the store
NextConstraints == process_constraints

SpecConstraints == InitConstraints /\ [][NextConstraints]_vars

\* a nested list command: the site id callback, then the dispatch
NextList ==
    \/ process_site_id
    \/ get_resource_by_natural_key
    \/ list_subcommand

SpecList == Init /\ [][NextList]_vars
\* ------------------------------------------------------------------------
\* Properties of process_site_id
\* ------------------------------------------------------------------------
\* C10: a call with a site id returns it and stores it as default_site; a
\* call without one returns default_site and leaves it alone, or fails with
\* UsageError when it is unset and leaves it unset; so a successful call
\* returns default_site, and once default_site is set no call fails and it
\* stays set
SiteIdContract ==
    [][/\ default_site # None => default_site' # None
       /\ call'.op = "process_site_id" =>
            /\ call'.value # None =>
                 /\ call'.status = "ok"
                 /\ call'.ret = call'.value
                 /\ default_site' = call'.value
            /\ (call'.value = None /\ default_site # None) =>
                 /\ call'.status = "ok"
                 /\ call'.ret = default_site
                 /\ default_site' = default_site
            /\ (call'.value = None /\ default_site = None) =>
                 /\ call'.status = "UsageError"
                 /\ default_site' = None
            /\ call'.status = "ok" =>
                 /\ call'.ret = default_site'
                 /\ default_site' # None
            /\ default_site # None => call'.status = "ok"]_vars

\* a call without a site id that succeeded on a stored default
SiteIdFromDefault ==
    /\ call.op = "process_site_id"
    /\ call.value = None
    /\ call.status = "ok"
    /\ call.ret = IntVal(2)

\* ------------------------------------------------------------------------
\* Properties of get_resource_by_natural_key
\* ------------------------------------------------------------------------
\* the id of the object the lookup answered with, None when there is none
AnswerId(answer) ==
    IF answer.obj = None THEN None ELSE answer.obj.d["id"]

\* C8: an object with an id resolves to exactly that id; no object, or an
\* object whose id is None, fails with a UsageError naming the resource
\* type; None is never returned as an id
ResolveContract ==
    (call.op = "get_resource_by_natural_key" /\ call.answer.status = "ok") =>
        /\ AnswerId(call.answer) # None =>
             /\ call.status = "ok"
             /\ call.ret = AnswerId(call.answer)
        /\ AnswerId(call.answer) = None =>
             /\ call.status = "UsageError"
             /\ call.msg = call.resource_name
        /\ call.status = "ok" => call.ret # None

\* the lookup answered with an object that has no id
ResolveObjectWithoutId ==
    /\ call.op = "get_resource_by_natural_key"
    /\ call.answer.status = "ok"
    /\ call.answer.obj # None
    /\ AnswerId(call.answer) = None
    /\ call.status = "UsageError"

\* ------------------------------------------------------------------------
\* Properties of list_subcommand
\* ------------------------------------------------------------------------
\* the value a key has in parentParams overlaid by ownParams
MergedValue(c, k) ==
    IF k \in DOMAIN c.params THEN c.params[k] ELSE c.parent_params[k]

MergedKeys(c) == (DOMAIN c.parent_params) \cup (DOMAIN c.params)

\* the positions in the calls of a dispatch at which fn was called
CallsOf(c, fn) == {i \in DOMAIN c.calls : c.calls[i].fn = fn}

\* the merged parameters carry the id key, with no id in it
IdAbsent(c) == "id" \in MergedKeys(c) /\ MergedValue(c, "id") = None

\* the merged parameters carry an id
IdSupplied(c) == "id" \in MergedKeys(c) /\ MergedValue(c, "id") # None

\* the lookup, if asked, answers with an object that has an id
Resolvable(c) == c.answer.status = "ok" /\ AnswerId(c.answer) # None

\* C7: the lookup is called only when the merged id is None, at most once
\* and before the listing; a failed resolution propagates and the listing
\* is never called; with the id supplied or resolved the listing is called
\* exactly once
DispatchOrder ==
    call.op = "list_subcommand" =>
        /\ CallsOf(call, "get_single_object") # {} => IdAbsent(call)
        /\ Cardinality(CallsOf(call, "get_single_object")) <= 1
        /\ \A i \in CallsOf(call, "get_single_object") :
             \A j \in CallsOf(call, "list") : i < j
        /\ (IdAbsent(call) /\ ~Resolvable(call)) =>
             /\ CallsOf(call, "list") = {}
             /\ call.status =
                  IF call.answer.status = "ok" THEN "UsageError"
                  ELSE call.answer.status
        /\ (IdSupplied(call) \/ (IdAbsent(call) /\ Resolvable(call))) =>
             Cardinality(CallsOf(call, "list")) = 1

\* a dispatch that looked the parent up and then listed
DispatchResolvedThenListed ==
    /\ call.op = "list_subcommand"
    /\ CallsOf(call, "get_single_object") # {}
    /\ CallsOf(call, "list") # {}

\* C9: the listing gets parentParams overlaid by ownParams without the id
\* key, and the handle parent collection -> parent id -> child name, the
\* parent id being the merged id or else the id of the object looked up
DispatchArguments ==
    call.op = "list_subcommand" =>
        \A i \in CallsOf(call, "list") :
            /\ call.calls[i].data =
                 [k \in MergedKeys(call) \ {"id"} |-> MergedValue(call, k)]
            /\ call.calls[i].resource =
                 <<Str(call.parent_resource_name),
                   IF IdSupplied(call) THEN MergedValue(call, "id")
                   ELSE AnswerId(call.answer),
                   IF call.my_name # None THEN call.my_name
                   ELSE call.info_name>>

\* the supernets of the network the lookup found for cidr 10.0.0.0/8
DispatchSupernetsOfNetwork5 ==
    /\ call.op = "list_subcommand"
    /\ call.parent_params =
         [k \in {"id", "cidr"} |-> IF k = "id" THEN None ELSE cidr8]
    /\ call.params = [k \in {"cidr"} |-> cidr16]
    /\ \E i \in CallsOf(call, "list") :
         /\ call.calls[i].resource =
              <<Str("networks"), IntVal(5), Str("supernets")>>
         /\ call.calls[i].data = [k \in {"cidr"} |-> cidr16]
\* ------------------------------------------------------------------------
\* Properties of process_constraints
\* ------------------------------------------------------------------------
\* the dicts a call was given
RecordsOf(data) == IF data.t = "list" THEN Range(data.l) ELSE {data.id}

\* no dict is passed twice in the list
Distinct(data) ==
    data.t = "list" => Cardinality(Range(data.l)) = Len(data.l)

\* the constrained fields a dict has, as the constraints map they make
Constrained(obj, constraint_fields) ==
    Dict([f \in constraint_fields \cap DOMAIN obj |-> obj[f]])

\* C5 as stated, read on a single record or a list without repeats: after
\* the call every record has a constraints map of exactly the constrained
\* fields it had, those fields are gone from its top level, every other
\* field it had is kept, and the value returned is the value passed in
ConstraintsMovedAnyRecord ==
    [][(call'.op = "process_constraints" /\ Distinct(call'.data)) =>
         /\ call'.ret = call'.data
         /\ \A id \in RecordsOf(call'.data) :
              LET before == objs[id]
                  after == objs'[id]
                  cf == call'.constraint_fields
              IN  /\ "constraints" \in DOMAIN after
                  /\ after["constraints"] = Constrained(before, cf)
                  /\ \A f \in cf \cap DOMAIN before : f \notin DOMAIN after
                  /\ \A f \in (DOMAIN before) \ cf :
                       f \in DOMAIN after /\ after[f] = before[f]]_vars

\* C5 amended: the same for a single record or a list of distinct records,
\* except for the key 'constraints' itself, which always holds the new
\* constraints map afterwards, whether or not the record had that key or
\* constraintFields names it; dicts not passed in are left alone
ConstraintsMoved ==
    [][(call'.op = "process_constraints" /\ Distinct(call'.data)) =>
         /\ call'.ret = call'.data
         /\ \A id \in ObjIds \ RecordsOf(call'.data) : objs'[id] = objs[id]
         /\ \A id \in RecordsOf(call'.data) :
              LET before == objs[id]
                  after == objs'[id]
                  cf == call'.constraint_fields
              IN  /\ "constraints" \in DOMAIN after
                  /\ after["constraints"] = Constrained(before, cf)
                  /\ \A f \in (cf \cap DOMAIN before) \ {"constraints"} :
                       f \notin DOMAIN after
                  /\ \A f \in (DOMAIN before) \ (cf \cup {"constraints"}) :
                       f \in DOMAIN after /\ after[f] = before[f]]_vars

\* a list of two records was processed, one of which had its site_id moved
\* while its name stayed
ConstraintsMovedInList ==
    /\ call.op = "process_constraints"
    /\ call.data = List(<<"o1", "o2">>)
    /\ call.constraint_fields = {"site_id"}
    /\ \E id \in ObjIds :
         /\ "name" \in DOMAIN objs[id]
         /\ "constraints" \in DOMAIN objs[id]
         /\ objs[id]["constraints"] = Dict([f \in {"site_id"} |-> IntVal(2)])
\* ------------------------------------------------------------------------
\* Properties of transform_attributes
\* ------------------------------------------------------------------------
\* the strings a value holds
StringsOf(value) == IF value.t = "str" THEN {value.s} ELSE Range(value.l)

\* s[i..j] is one comma-separated token of s
IsTokenAt(s, i, j) ==
    /\ i = 1 \/ s[i - 1] = ","
    /\ j = Len(s) \/ s[j + 1] = ","
    /\ \A k \in i..j : s[k] # ","

\* the distinct comma-separated tokens of a value
TokensOf(value) ==
    UNION {{SubSeq(s, p[1], p[2]) :
              p \in {q \in (1..(Len(s) + 1)) \X (0..Len(s)) :
                       q[2] >= q[1] - 1 /\ IsTokenAt(s, q[1], q[2])}} :
             s \in StringsOf(value)}

HasEquals(tok) == \E i \in 1..Len(tok) : tok[i] = "="

\* pair is the text before and after the first '=' of tok
IsPairOf(pair, tok) ==
    IF HasEquals(tok)
    THEN tok = pair[1] \o <<"=">> \o pair[2] /\ ~HasEquals(pair[1])
    ELSE pair = <<tok, <<>>>>

\* tok is in key=value form
WellFormed(tok) == HasEquals(tok) /\ tok[1] # "="

\* C3 as stated: a value with a token that is not in key=value form, be it
\* an empty key or no '=' at all, fails with a UsageError naming such a
\* token, and no map is returned
MalformedTokenRejected ==
    (/\ call.op = "transform_attributes"
     /\ call.value # None
     /\ \E tok \in TokensOf(call.value) : ~WellFormed(tok)) =>
        /\ call.status = "UsageError"
        /\ call.ret = None
        /\ call.msg.attr \in {tok \in TokensOf(call.value) : ~WellFormed(tok)}

\* C4: a successful call leaves the parse log as it was, followed by one
\* pair per distinct token, each the text around the token's first '=';
\* the map returned has exactly the keys of those pairs, each with the
\* value of the last pair appended for it
ParseLogAppended ==
    [][(call'.op = "transform_attributes" /\ call'.status = "ok") =>
         LET n == Len(attributes)
             m == Len(attributes') - n
             appended == [i \in 1..m |-> attributes'[n + i]]
             toks == TokensOf(call'.value)
         IN  /\ m >= 0
             /\ SubSeq(attributes', 1, n) = attributes
             /\ m = Cardinality(toks)
             /\ \E order \in Perms(toks) :
                  \A i \in 1..m : IsPairOf(appended[i], order[i])
             /\ call'.ret.t = "dict"
             /\ DOMAIN call'.ret.d = {appended[i][1] : i \in 1..m}
             /\ \A i \in 1..m :
                  (\A j \in (i + 1)..m : appended[j][1] # appended[i][1])
                    => call'.ret.d[appended[i][1]] = appended[i][2]]_vars

\* two pairs for the same key were appended to a log that already held two
ParseLogDuplicateKey ==
    /\ call.op = "transform_attributes"
    /\ call.status = "ok"
    /\ call.value = Str(join(<<s_a1, s_a2>>, ","))
    /\ Len(attributes) = 4
\* ------------------------------------------------------------------------
\* Properties of process_bulk_add
\* ------------------------------------------------------------------------
\* the numbers of the lines after the header that are not blank
DataLines(lines) == {j \in 2..Len(lines) : lines[j] # <<>>}

\* the number of the n-th data line
RECURSIVE DataLine(_, _)
DataLine(lines, n) ==
    LET first == CHOOSE j \in DataLines(lines) :
                     \A k \in DataLines(lines) : j <= k
    IN  IF n = 1 THEN first
        ELSE DataLine([j \in 1..Len(lines) |->
                          IF j = first THEN <<>> ELSE lines[j]], n - 1)

\* the number of ':'-separated fields written on a line
FieldCount(line) == Cardinality({i \in 1..Len(line) : line[i] = ":"}) + 1

\* the call was given a file with a header and at least one data row
LoadedRows(c) ==
    /\ c.op = "process_bulk_add"
    /\ c.value # None
    /\ Len(c.value.l) >= 1
    /\ DataLines(c.value.l) # {}

\* C1 as stated, for the first data row of the file: when it has fewer or
\* more fields than the header, the load fails with a BadParameter citing
\* the row's line number and returns no list
FieldCountMismatchRejected ==
    LoadedRows(call) =>
        LET lines == call.value.l
            j == DataLine(lines, 1)
        IN  FieldCount(lines[j]) # FieldCount(lines[1]) =>
                /\ call.status = "BadParameter"
                /\ call.msg.line = j
                /\ call.ret = None

TrueSpellings == {s_True, s_TRUE, <<"t", "r", "u", "e">>}
FalseSpellings == {s_False, s_false, <<"F", "A", "L", "S", "E">>}

\* the attributes column of a row is left alone or can be parsed
AttributesParse(c, header, row) ==
    \/ c.parent_resource_name \in NO_ATTRIBUTES
    \/ \E i \in DOMAIN header :
         /\ header[i] = s_attributes
         /\ \A tok \in TokensOf(Str(row[i])) : tok # <<>> /\ tok[1] # "="

\* column i of the header holds plain strings, not attributes to transform
PlainColumn(c, header, i) ==
    header[i] # s_attributes \/ c.parent_resource_name \in NO_ATTRIBUTES

\* C2 as stated, on a file with one well-formed data row: a field spelling
\* True or False in any case becomes that boolean and the load succeeds,
\* every other string field is kept
BooleanSpellingsCoerced ==
    LoadedRows(call) =>
        LET lines == call.value.l
            header == split(lines[1], ":")
            row == split(lines[DataLine(lines, 1)], ":")
        IN  (/\ Cardinality(DataLines(lines)) = 1
             /\ Len(row) = Len(header)
             /\ AttributesParse(call, header, row)) =>
                /\ call.status = "ok"
                /\ \A i \in DOMAIN header :
                     PlainColumn(call, header, i) =>
                       call.ret.l[1].d[header[i]] =
                         IF row[i] \in TrueSpellings THEN Bool(TRUE)
                         ELSE IF row[i] \in FalseSpellings THEN Bool(FALSE)
                         ELSE Str(row[i])

\* the list returned has one record per data row, in file order, with the
\* header's fields
CompleteList(c) ==
    LET lines == c.value.l
        header == split(lines[1], ":")
    IN  /\ c.ret.t = "list"
        /\ Len(c.ret.l) = Cardinality(DataLines(lines))
        /\ \A n \in 1..Len(c.ret.l) :
             LET row == split(lines[DataLine(lines, n)], ":")
             IN  /\ DOMAIN c.ret.l[n].d = Range(header)
                 /\ \A i \in DOMAIN header :
                      (/\ PlainColumn(c, header, i)
                       /\ row[i] \notin TrueSpellings \cup FalseSpellings) =>
                          c.ret.l[n].d[header[i]] = Str(row[i])

\* what a load returns: the complete list, or nothing when it fails
AllOrNothing(c) ==
    /\ (c.status = "ok" /\ LoadedRows(c)) => CompleteList(c)
    /\ c.status # "ok" => c.ret = None

====
